---- MODULE Spec2Model ----
(***************************************************************************)
(* Model of ch05-rubust-trees/src/red_brack_tree.rs: the DeviceRegistry    *)
(* red-black tree (insert with fixup, rotate, find, walk), of heap.rs (the *)
(* MessageChecker priority queue) and of trie.rs (the TrieTree behind the  *)
(* registry of iot.rs).                                                    *)
(*                                                                         *)
(* Nodes live in an arena: node ids are 1..Len(nodes), in allocation       *)
(* order, and None (0) is the empty Option.  Rc<RefCell<Node>> handles are *)
(* node ids; a panic (assert!, unwrap of None, RefCell double borrow) or a *)
(* non-terminating recursion/loop stops the program and is recorded in     *)
(* fault together with the registry as it was left at that point.          *)
(***************************************************************************)
EXTENDS Integers, Sequences, FiniteSets, TLC

\* ---------------------------------------------------------------- bounds
MaxKey == 4
MaxInserts == 6
MaxRotates == 2
MaxRotInserts == 5
MaxRun == 12
MaxCount == 3
MaxHeap == 5
MaxChar == 2
MaxKeyLen == 2
MaxTrieLen == 3
MaxValue == 2

Keys == 1..MaxKey

VARIABLES nodes, root, length, fault, calls, rotations, rotated, last, snapshot,
          heap, trie

vars == <<nodes, root, length, fault, calls, rotations, rotated, last, snapshot,
          heap, trie>>

\* ---------------------------------------------------------------- Node
None == 0

NewNode(value) ==
    [color |-> "Red", v |-> value, parent |-> None, left |-> None, right |-> None]

is_root(ns, n) == ns[n].parent = None

\* A machine value m threads the heap (ns), the registry fields and the
\* fault flag through the sequential code.
Failed(m) == m.fault # "none"

Fail(m, why) == [m EXCEPT !.fault = why]

switch_color(m, n, color) ==
    IF Failed(m) THEN m
    ELSE IF m.ns[n].color = color THEN Fail(m, "switch_color")
    ELSE [m EXCEPT !.ns[n].color = color]

\* Mutant: the unconditional colour write is dropped.
set_color_skipped(m, n, color) == m

set_color(m, n, color) ==
    IF Failed(m) THEN m ELSE [m EXCEPT !.ns[n].color = color]

\* ---------------------------------------------------------------- links
pair(ns, parent, child, direction) ==
    IF parent # None /\ child # None THEN
        LET ns1 == IF direction = "LeftNode"
                   THEN [ns EXCEPT ![parent].left = child]
                   ELSE [ns EXCEPT ![parent].right = child]
        IN [ns1 EXCEPT ![child].parent = parent]
    ELSE IF parent # None THEN
        IF direction = "LeftNode"
        THEN [ns EXCEPT ![parent].left = None]
        ELSE [ns EXCEPT ![parent].right = None]
    ELSE IF child # None THEN [ns EXCEPT ![child].parent = None]
    ELSE ns

\* Mutant: equal keys go to the left.
decide_direction_strict(a, b) == IF a < b THEN "RightNode" ELSE "LeftNode"

decide_direction(a, b) == IF a <= b THEN "RightNode" ELSE "LeftNode"

\* ---------------------------------------------------------------- insert
\* Unwinding of one insert_rec frame: pair the node with the subtree the
\* recursive call handed back and return the node itself.
link_back(r, current_node, direction) ==
    IF Failed(r.m) THEN r
    ELSE [m |-> [r.m EXCEPT !.ns = pair(r.m.ns, current_node, r.tree, direction)],
          tree |-> current_node, new |-> r.new]

child_on(ns, n, direction) ==
    IF direction = "LeftNode" THEN ns[n].left ELSE ns[n].right

RECURSIVE insert_rec(_, _, _, _)
\* Returns [m, tree, new]: the machine, the subtree handle handed back to
\* the caller and the freshly created node.  depth counts the recursion; a
\* descent longer than the arena revisits a node and never returns.
insert_rec(m, maybe_current_node, value, depth) ==
    IF Failed(m) THEN [m |-> m, tree |-> None, new |-> None]
    ELSE IF depth > Len(m.ns)
    THEN [m |-> Fail(m, "overflow"), tree |-> None, new |-> None]
    ELSE IF maybe_current_node = None THEN
        [m |-> [m EXCEPT !.ns = Append(m.ns, NewNode(value))],
         tree |-> Len(m.ns) + 1, new |-> Len(m.ns) + 1]
    ELSE
        link_back(
            insert_rec(m,
                       child_on(m.ns, maybe_current_node,
                                decide_direction(m.ns[maybe_current_node].v, value)),
                       value, depth + 1),
            maybe_current_node,
            decide_direction(m.ns[maybe_current_node].v, value))

\* self.root = maybe_root; new_node
store_root(r) ==
    IF Failed(r.m) THEN [m |-> r.m, new |-> None]
    ELSE [m |-> [r.m EXCEPT !.root = r.tree], new |-> r.new]

\* Mutant: a key that is already stored is linked but not counted.
insert_internal_dedup(m, value) ==
    store_root(insert_rec(
        [m EXCEPT !.length = IF \E n \in 1..Len(m.ns) : m.ns[n].v = value
                             THEN m.length ELSE m.length + 1,
                  !.root = None],
        m.root, value, 0))

insert_internal(m, value) ==
    store_root(insert_rec([m EXCEPT !.length = m.length + 1, !.root = None],
                          m.root, value, 0))

\* ---------------------------------------------------------------- rotate
\* Last step of rotate_internal: child takes node's place under p, the
\* parent node had on entry.
\* Mutant: a child that moves to the top keeps the parent it had.
relink_parent_keep(ns, p, node, child) ==
    IF p # None
    THEN pair(ns, p, child, decide_direction(ns[p].v, ns[node].v))
    ELSE ns

relink_parent(ns, p, node, child) ==
    IF p # None
    THEN pair(ns, p, child, decide_direction(ns[p].v, ns[node].v))
    ELSE [ns EXCEPT ![child].parent = None]

child_direction(rotation) ==
    IF rotation = "Left" THEN "LeftNode" ELSE "RightNode"

grandchild_direction(rotation) ==
    IF rotation = "Left" THEN "RightNode" ELSE "LeftNode"

\* Mutant: the assertion comes after the first pairing.
rotate_internal_late(m, node, child, grandchild, rotation) ==
    IF Failed(m) THEN m
    ELSE IF child = None
    THEN Fail([m EXCEPT !.ns = pair(m.ns, child, node, child_direction(rotation))],
              "rotate_without_child")
    ELSE [m EXCEPT !.ns =
              relink_parent(
                  pair(pair(m.ns, child, node, child_direction(rotation)),
                       node, grandchild, grandchild_direction(rotation)),
                  m.ns[node].parent, node, child)]

rotate_internal(m, node, child, grandchild, rotation) ==
    IF Failed(m) THEN m
    ELSE IF child = None THEN Fail(m, "rotate_without_child")
    ELSE [m EXCEPT !.ns =
              relink_parent(
                  pair(pair(m.ns, child, node, child_direction(rotation)),
                       node, grandchild, grandchild_direction(rotation)),
                  m.ns[node].parent, node, child)]

\* child.and_then(|c| c.side)
and_then_left(ns, c) == IF c # None THEN ns[c].left ELSE None

and_then_right(ns, c) == IF c # None THEN ns[c].right ELSE None

\* m.rot counts the calls of rotate.
rotate(m, node, direction) ==
    IF Failed(m) THEN m
    ELSE IF direction = "Left" THEN
        rotate_internal([m EXCEPT !.rot = m.rot + 1], node, m.ns[node].right,
                        and_then_left(m.ns, m.ns[node].right), "Left")
    ELSE
        rotate_internal([m EXCEPT !.rot = m.rot + 1], node, m.ns[node].left,
                        and_then_right(m.ns, m.ns[node].left), "Right")

\* Option<(MaybeTree, RedBlackOp)>: some = FALSE is None.
uncle(ns, node) ==
    IF ns[node].parent = None
    THEN [some |-> FALSE, uncle |-> None, which |-> "LeftNode"]
    ELSE IF ns[ns[node].parent].parent = None
    THEN [some |-> FALSE, uncle |-> None, which |-> "LeftNode"]
    ELSE IF decide_direction(ns[ns[ns[node].parent].parent].v,
                             ns[ns[node].parent].v) = "LeftNode"
    THEN [some |-> TRUE, uncle |-> ns[ns[ns[node].parent].parent].right,
          which |-> "RightNode"]
    ELSE [some |-> TRUE, uncle |-> ns[ns[ns[node].parent].parent].left,
          which |-> "LeftNode"]

\* ---------------------------------------------------------------- fixup
\* node.borrow_mut().color = color: a write of the field that asks nothing
\* of the colour the node has.  m.idle counts those that left it as it was.
direct_write(m, n, color) ==
    [m EXCEPT !.ns[n].color = color,
              !.idle = IF m.ns[n].color = color THEN m.idle + 1 ELSE m.idle]

\* next_parent.borrow().parent.as_ref().unwrap().clone().borrow_mut().color
\*     = Color::Red
\* next_parent stays borrowed while its parent is borrowed mutably.
paint_parent_red(m, next_parent) ==
    IF m.ns[next_parent].parent = None THEN Fail(m, "unwrap_none")
    ELSE IF m.ns[next_parent].parent = next_parent
    THEN Fail(m, "already_borrowed")
    ELSE direct_write(m, m.ns[next_parent].parent, "Red")

\* self.rotate(self.parent_or_panic(&n), direction)
rotate_parent_of(m, n, direction) ==
    IF Failed(m) THEN m
    ELSE IF m.ns[n].parent = None THEN Fail(m, "unwrap_none")
    ELSE rotate(m, m.ns[n].parent, direction)

outer_rotation(uncle_direction) ==
    IF uncle_direction = "LeftNode" THEN "Left" ELSE "Right"

\* Mutant: the parent of next_parent keeps its colour.
recolor_and_rotate_keep(m, next_parent, next_current, uncle_direction) ==
    IF Failed(m) THEN [m |-> m, parent |-> None, current |-> None]
    ELSE [m |-> rotate_parent_of(direct_write(m, next_parent, "Black"),
                                 next_parent, outer_rotation(uncle_direction)),
          parent |-> next_parent, current |-> next_current]

\* Black/absent-uncle arm, after (next_parent, next_current) were chosen:
\* recolour next_parent Black and its parent Red, rotate that parent.
recolor_and_rotate(m, next_parent, next_current, uncle_direction) ==
    IF Failed(m) THEN [m |-> m, parent |-> None, current |-> None]
    ELSE [m |-> rotate_parent_of(
                    paint_parent_red(direct_write(m, next_parent, "Black"),
                                     next_parent),
                    next_parent, outer_rotation(uncle_direction)),
          parent |-> next_parent, current |-> next_current]

inner_rotation(uncle_direction) ==
    IF uncle_direction = "LeftNode" THEN "Right" ELSE "Left"

\* (self.parent_or_panic(&tmp), tmp) after the first rotation, then the
\* recolouring and the second rotation.
after_inner_rotation(m, tmp, uncle_direction) ==
    IF Failed(m) THEN [m |-> m, parent |-> None, current |-> None]
    ELSE IF m.ns[tmp].parent = None
    THEN [m |-> Fail(m, "unwrap_none"), parent |-> None, current |-> None]
    ELSE recolor_and_rotate(m, m.ns[tmp].parent, tmp, uncle_direction)

\* Returns [m, parent, current] = (next_parent, next_current).
balance_single_node(m, current, parent, maybe_uncle, uncle_direction, grand_parent) ==
    IF Failed(m) THEN [m |-> m, parent |-> None, current |-> None]
    ELSE IF maybe_uncle # None /\ m.ns[maybe_uncle].color = "Red" THEN
        [m |-> switch_color(
                   switch_color(switch_color(m, parent, "Black"),
                                maybe_uncle, "Black"),
                   grand_parent, "Red"),
         parent |-> parent, current |-> grand_parent]
    ELSE IF decide_direction(m.ns[parent].v, m.ns[current].v) = uncle_direction THEN
        after_inner_rotation(
            rotate_parent_of(m, current, inner_rotation(uncle_direction)),
            m.ns[current].parent, uncle_direction)
    ELSE recolor_and_rotate(m, parent, current, uncle_direction)

RECURSIVE balance_loop(_, _, _)

\* One pass through the body of the while loop; in the source the local
\* named grand_parent is current's parent.
loop_body(m, current, u) ==
    balance_single_node(m, current, m.ns[current].parent, u.uncle, u.which,
                        m.ns[current].parent)

loop_again(r, iter) == balance_loop(r.m, r.current, iter + 1)

loop_step(m, current, u, iter) ==
    IF ~u.some THEN [m |-> m, current |-> current]
    ELSE loop_again(loop_body(m, current, u), iter)

\* The while loop of balance: it runs while current is not the root and its
\* parent is Red.  Returns [m, current].  iter counts the iterations.
balance_loop(m, current, iter) ==
    IF Failed(m) THEN [m |-> m, current |-> current]
    ELSE IF is_root(m.ns, current) \/ m.ns[m.ns[current].parent].color # "Red"
    THEN [m |-> m, current |-> current]
    ELSE IF iter > 2 * Len(m.ns)
    THEN [m |-> Fail(m, "endless_loop"), current |-> current]
    ELSE loop_step(m, current, uncle(m.ns, current), iter)

RECURSIVE root_walk(_, _, _)
\* while !current.is_root() { current = parent }; None when it never ends.
root_walk(ns, current, steps) ==
    IF is_root(ns, current) THEN current
    ELSE IF steps > Len(ns) THEN None
    ELSE root_walk(ns, ns[current].parent, steps + 1)

\* root.inspect(|node| node.set_color(Black)); the returned root is m.ret.
blacken(m, top) ==
    IF top = None THEN Fail(m, "endless_loop")
    ELSE [set_color(m, top, "Black") EXCEPT !.ret = top]

after_loop(r) ==
    IF Failed(r.m) THEN r.m
    ELSE blacken(r.m, root_walk(r.m.ns, r.current, 0))

balance(m, inserted) ==
    IF Failed(m) THEN m
    ELSE IF ~is_root(m.ns, inserted)
    THEN after_loop(balance_loop(m, inserted, 0))
    ELSE blacken(m, inserted)

\* Mutant: the registry keeps the root it had before the fixup.
adopt_root_stale(b) == b

\* self.root = self.balance(new_node)
adopt_root(b) == IF Failed(b) THEN b ELSE [b EXCEPT !.root = b.ret]

balance_new(r) == balance(r.m, r.new)

insert(m, value) == adopt_root(balance_new(insert_internal(m, value)))

\* ---------------------------------------------------------------- find
RECURSIVE find_rec_nearest(_, _, _, _)
\* Mutant: a missing child link answers with the node where the descent
\* stopped.
find_rec_nearest(ns, current, value, depth) ==
    IF depth > Len(ns) THEN [ok |-> FALSE, ret |-> <<>>]
    ELSE IF ns[current].v < value THEN
        IF ns[current].right = None THEN [ok |-> TRUE, ret |-> <<ns[current].v>>]
        ELSE find_rec_nearest(ns, ns[current].right, value, depth + 1)
    ELSE IF ns[current].v > value THEN
        IF ns[current].left = None THEN [ok |-> TRUE, ret |-> <<ns[current].v>>]
        ELSE find_rec_nearest(ns, ns[current].left, value, depth + 1)
    ELSE [ok |-> TRUE, ret |-> <<ns[current].v>>]

RECURSIVE find_rec(_, _, _, _)
\* Option<T> is <<>> (None) or <<v>> (Some(v)); ok = FALSE when the
\* recursion never returns.
find_rec(ns, current, value, depth) ==
    IF depth > Len(ns) THEN [ok |-> FALSE, ret |-> <<>>]
    ELSE IF ns[current].v < value THEN
        IF ns[current].right = None THEN [ok |-> TRUE, ret |-> <<>>]
        ELSE find_rec(ns, ns[current].right, value, depth + 1)
    ELSE IF ns[current].v > value THEN
        IF ns[current].left = None THEN [ok |-> TRUE, ret |-> <<>>]
        ELSE find_rec(ns, ns[current].left, value, depth + 1)
    ELSE [ok |-> TRUE, ret |-> <<ns[current].v>>]

find(ns, r, value) ==
    IF r = None THEN [ok |-> TRUE, ret |-> <<>>]
    ELSE find_rec(ns, r, value, 0)

\* ---------------------------------------------------------------- walk
RECURSIVE walk_rec(_, _, _)
\* The callback invocations, in order, as <<value, level>> pairs.
walk_rec(ns, node, level) ==
    IF level > Len(ns) THEN [ok |-> FALSE, out |-> <<>>]
    ELSE
        LET left == ns[node].left
            right == ns[node].right
            here == << <<ns[node].v, level>> >>
            r == IF right = None THEN [ok |-> TRUE, out |-> <<>>]
                 ELSE walk_rec(ns, right, level + 1)
            l == IF left = None \/ ~r.ok THEN [ok |-> r.ok, out |-> <<>>]
                 ELSE walk_rec(ns, left, level + 1)
        IN [ok |-> r.ok /\ l.ok, out |-> here \o r.out \o l.out]

walk(ns, r) ==
    IF r = None THEN [ok |-> TRUE, out |-> <<>>]
    ELSE walk_rec(ns, r, 0)

\* ---------------------------------------------------------------- state
Machine == [ns |-> nodes, root |-> root, length |-> length,
            fault |-> "none", rot |-> 0, ret |-> None, idle |-> 0]

Init ==
    /\ nodes = <<>>
    /\ root = None
    /\ length = 0
    /\ fault = "none"
    /\ calls = <<>>
    /\ rotations = 0
    /\ rotated = 0
    /\ last = [op |-> "new", arg |-> 0, ret |-> <<>>]
    /\ snapshot = <<>>
    /\ heap = <<>>
    /\ trie = [next |-> [p \in {} |-> 0], length |-> 0]

CommitInsert(m) ==
    /\ nodes' = m.ns
    /\ root' = m.root
    /\ length' = m.length
    /\ fault' = m.fault
    /\ rotations' = m.rot

CommitRotate(m) ==
    /\ nodes' = m.ns
    /\ fault' = m.fault

\* registry.insert(value).  rotate is private and only the unit tests call
\* it directly, after their inserts, so no insert follows a direct rotate.
Insert(value) ==
    /\ fault = "none"
    /\ rotated = 0
    /\ Len(calls) < MaxInserts
    /\ CommitInsert(insert(Machine, value))
    /\ calls' = Append(calls, value)
    /\ last' = [op |-> "insert", arg |-> value, ret |-> <<>>]
    /\ UNCHANGED <<rotated, snapshot, heap, trie>>

\* registry.find(value)
Find(value) ==
    /\ fault = "none"
    /\ LET r == find(nodes, root, value)
       IN /\ fault' = IF r.ok THEN "none" ELSE "overflow"
          /\ last' = [op |-> "find", arg |-> value, ret |-> r.ret]
    /\ UNCHANGED <<nodes, root, length, calls, rotations, rotated, snapshot, heap, trie>>

\* registry.walk(callback), the callback recording its arguments
Walk ==
    /\ fault = "none"
    /\ LET r == walk(nodes, root)
       IN /\ fault' = IF r.ok THEN "none" ELSE "overflow"
          /\ last' = [op |-> "walk", arg |-> 0, ret |-> r.out]
    /\ UNCHANGED <<nodes, root, length, calls, rotations, rotated, snapshot, heap, trie>>

RECURSIVE Linked(_, _)
\* The nodes a caller can get hold of from the handles in S by following
\* left, right and parent.
Linked(ns, S) ==
    LET T == (S \cup {ns[n].left : n \in S} \cup {ns[n].right : n \in S}
                \cup {ns[n].parent : n \in S}) \ {None}
    IN IF T = S THEN S ELSE Linked(ns, T)

\* registry.rotate(node, direction), called directly on a node of the tree;
\* snapshot keeps the nodes as they were before the first direct rotation.
Rotate(node, direction) ==
    /\ fault = "none"
    /\ rotated < MaxRotates
    /\ Len(calls) <= MaxRotInserts
    /\ root # None
    /\ node \in Linked(nodes, {root})
    /\ CommitRotate(rotate(Machine, node, direction))
    /\ rotated' = rotated + 1
    /\ snapshot' = IF rotated = 0 THEN nodes ELSE snapshot
    /\ last' = [op |-> "rotate", arg |-> node, ret |-> <<direction>>]
    /\ UNCHANGED <<root, length, calls, rotations, heap, trie>>

Next ==
    \/ \E value \in Keys : Insert(value)
    \/ \E value \in Keys : Find(value)
    \/ Walk

Spec == Init /\ [][Next]_vars

NextRotate ==
    \/ \E value \in Keys : Insert(value)
    \/ \E value \in Keys : Find(value)
    \/ Walk
    \/ \E node \in 1..MaxInserts, direction \in {"Left", "Right"} :
           Rotate(node, direction)

SpecRotate == Init /\ [][NextRotate]_vars

\* The insert sequences of the unit tests and of the documented scenarios,
\* and the ascending and the descending run of MaxRun keys.
Scripts ==
    {<<1, 2, 3>>, <<5, 6, 4>>, <<2, 1, 4, 3, 7, 6, 5>>,
     [i \in 1..MaxRun |-> i], [i \in 1..MaxRun |-> MaxRun + 1 - i]}

\* registry.insert(value) with the next value of one of the Scripts
InsertScripted(value) ==
    /\ fault = "none"
    /\ \E s \in Scripts :
           /\ Len(calls) < Len(s)
           /\ SubSeq(s, 1, Len(calls)) = calls
           /\ value = s[Len(calls) + 1]
    /\ CommitInsert(insert(Machine, value))
    /\ calls' = Append(calls, value)
    /\ last' = [op |-> "insert", arg |-> value, ret |-> <<>>]
    /\ UNCHANGED <<rotated, snapshot, heap, trie>>

NextScripted ==
    \/ \E value \in 1..MaxRun : InsertScripted(value)
    \/ \E value \in 1..MaxRun : Find(value)
    \/ Walk

SpecScripted == Init /\ [][NextScripted]_vars

\* The red-black registry, untouched by the heap and the trie.
registry == <<nodes, root, length, calls, rotations, rotated, snapshot>>

\* ---------------------------------------------------------------- heap.rs
\* HeapTree.heap is a Vec indexed from 0: index i is position i + 1 of the
\* sequence.  Elements are compared by message_count, so a notification is
\* its message_count.  An Option<usize> is <<>> or <<index>>.
parent(index) == IF index = 0 THEN <<>> ELSE <<(index - 1) \div 2>>

is_higher_priority(h, i1, i2) == h[i1 + 1] >= h[i2 + 1]

get_largest_child(h, index) ==
    IF is_higher_priority(h, index * 2, index * 2 + 1)
    THEN index * 2
    ELSE index * 2 + 1

swap(h, a, b) == [h EXCEPT ![a + 1] = h[b + 1], ![b + 1] = h[a + 1]]

RECURSIVE bubble_up(_, _)
bubble_up(h, current) ==
    IF parent(current) = <<>> THEN h
    ELSE IF is_higher_priority(h, current, parent(current)[1])
         THEN bubble_up(swap(h, current, parent(current)[1]), parent(current)[1])
         ELSE h

\* self.heap.push(v); self.bubble_up(self.length() - 1)
heap_add(h, v) == bubble_up(Append(h, v), Len(h))

RECURSIVE bubble_down(_, _)
bubble_down(h, current) ==
    IF current * 2 + 1 < Len(h)
    THEN IF is_higher_priority(h, current, get_largest_child(h, current))
         THEN h
         ELSE bubble_down(swap(h, current, get_largest_child(h, current)),
                          get_largest_child(h, current))
    ELSE h

\* Vec::swap_remove: the last element takes the place of the removed one.
swap_remove(h, index) ==
    SubSeq([h EXCEPT ![index + 1] = h[Len(h)]], 1, Len(h) - 1)

heap_pop(h) ==
    IF Len(h) = 0
    THEN [heap |-> h, ret |-> <<>>]
    ELSE [heap |-> bubble_down(swap_remove(h, 0), 1), ret |-> <<h[1]>>]

HeapAdd(v) ==
    /\ fault = "none"
    /\ Len(heap) < MaxHeap
    /\ heap' = heap_add(heap, v)
    /\ last' = [op |-> "add", arg |-> v, ret |-> <<>>]
    /\ UNCHANGED <<registry, fault, trie>>

HeapPop ==
    /\ fault = "none"
    /\ heap' = heap_pop(heap).heap
    /\ last' = [op |-> "pop", arg |-> 0, ret |-> heap_pop(heap).ret]
    /\ UNCHANGED <<registry, fault, trie>>

NextHeap ==
    \/ \E v \in 1..MaxCount : HeapAdd(v)
    \/ HeapPop

SpecHeap == Init /\ [][NextHeap]_vars

\* ---------------------------------------------------------------- trie.rs
\* A node is named by the characters on the way to it: the nested BTreeMaps
\* are one function from paths to nodes, the children of the node at p being
\* the paths one character longer than p.  A key is a sequence of
\* characters 1..MaxChar, a value a number; an Option is <<>> or <<v>>.
TrieKeys == UNION {[1..n -> 1..MaxChar] : n \in 0..MaxKeyLen}

IsPrefix(p, q) == Len(p) <= Len(q) /\ SubSeq(q, 1, Len(p)) = p

new_internal == [kind |-> "Internal", value |-> 0]

\* node.next(): the keys of the child map of the node at p
next(nx, p) == {q \in DOMAIN nx : Len(q) = Len(p) + 1 /\ IsPrefix(p, q)}

make_entry(node, value) ==
    [result |-> IF node.kind = "Internal" THEN "Added" ELSE "Updated",
     node |-> [kind |-> "Entry", value |-> value]]

\* Mutant: an Internal node gives up a value as well.
take_value_any(node) == [ret |-> <<node.value>>, node |-> new_internal]

take_value(node) ==
    IF node.kind = "Internal"
    THEN [ret |-> <<>>, node |-> node]
    ELSE [ret |-> <<node.value>>, node |-> new_internal]

value(node) == IF node.kind = "Internal" THEN <<>> ELSE <<node.value>>

is_internal(node) == node.kind = "Internal"

\* Mutant: an Internal node counts as unused whatever its children.
is_unused_childless(nx, p) == is_internal(nx[p])

is_unused(nx, p) == is_internal(nx[p]) /\ next(nx, p) = {}

\* Mutant: the node on the way is created anew even when it exists.
or_insert_anew(nx, p) ==
    [q \in DOMAIN nx \cup {p} |-> IF q = p THEN new_internal ELSE nx[q]]

\* entry(c).or_insert_with(|| Box::new(TrieNode::new_internal()))
or_insert(nx, p) ==
    IF p \in DOMAIN nx THEN nx
    ELSE [q \in DOMAIN nx \cup {p} |-> IF q = p THEN new_internal ELSE nx[q]]

RECURSIVE descend_or_insert(_, _, _)
\* the first character in the root map, then the loop over chars[1..]
descend_or_insert(nx, chars, i) ==
    IF i > Len(chars) THEN nx
    ELSE descend_or_insert(or_insert(nx, SubSeq(chars, 1, i)), chars, i + 1)

add_result(t, nx, key, r) ==
    [next |-> [nx EXCEPT ![key] = r.node],
     length |-> IF r.result = "Added" THEN t.length + 1 ELSE t.length]

make_entry_at(t, nx, key, v) == add_result(t, nx, key, make_entry(nx[key], v))

\* TrieTree::add for a non-empty key (the assertion is in TrieAdd)
trie_add(t, key, v) == make_entry_at(t, descend_or_insert(t.next, key, 1), key, v)

RECURSIVE get_path(_, _, _)
\* root.get(&chars[0])? and next().get(&c)? for the following characters
get_path(nx, chars, i) ==
    IF SubSeq(chars, 1, i) \notin DOMAIN nx THEN FALSE
    ELSE IF i = Len(chars) THEN TRUE
    ELSE get_path(nx, chars, i + 1)

trie_find(t, s) ==
    IF s = <<>> THEN <<>>
    ELSE IF ~get_path(t.next, s, 1) THEN <<>>
    ELSE value(t.next[s])

\* BTreeMap::remove of the child at p, with everything below it
remove_child(nx, p) == [q \in {x \in DOMAIN nx : ~IsPrefix(p, x)} |-> nx[q]]

get_node_at_mut(nx, chars, index) ==
    IF index = 0 THEN <<chars[1]>> \in DOMAIN nx
    ELSE get_path(nx, SubSeq(chars, 1, index), 1)

remove_node(nx, chars, index, c) ==
    IF index = 0
    THEN IF <<c>> \in DOMAIN nx /\ is_unused(nx, <<c>>)
         THEN [next |-> remove_child(nx, <<c>>), removed |-> TRUE]
         ELSE [next |-> nx, removed |-> FALSE]
    ELSE IF /\ get_node_at_mut(nx, chars, index)
            /\ Append(SubSeq(chars, 1, index), c) \in DOMAIN nx
            /\ is_unused(nx, Append(SubSeq(chars, 1, index), c))
         THEN [next |-> remove_child(nx, Append(SubSeq(chars, 1, index), c)),
               removed |-> TRUE]
         ELSE [next |-> nx, removed |-> FALSE]

RECURSIVE remove_unused_once(_, _, _)
\* Mutant: only the node of the last character is looked at.
remove_unused_once(nx, chars, i) == remove_node(nx, chars, i, chars[i + 1]).next

RECURSIVE remove_unused(_, _, _)
\* for (i, c) in path.into_iter().rev(), until a node is not removed
remove_unused(nx, chars, i) ==
    IF remove_node(nx, chars, i, chars[i + 1]).removed /\ i > 0
    THEN remove_unused(remove_node(nx, chars, i, chars[i + 1]).next, chars, i - 1)
    ELSE remove_node(nx, chars, i, chars[i + 1]).next

taken(t, nx, key, ret) ==
    [t |-> [next |-> IF next(nx, key) # {} THEN nx
                     ELSE remove_unused(nx, key, Len(key) - 1),
            length |-> t.length - 1],
     ret |-> ret]

trie_remove(t, key) ==
    IF key = <<>> THEN [t |-> t, ret |-> <<>>]
    ELSE IF ~get_path(t.next, key, 1) THEN [t |-> t, ret |-> <<>>]
    ELSE IF take_value(t.next[key]).ret = <<>> THEN [t |-> t, ret |-> <<>>]
    ELSE taken(t, [t.next EXCEPT ![key] = take_value(t.next[key]).node], key,
               take_value(t.next[key]).ret)

\* iot.rs DeviceRegistry::add / TrieTree::add
TrieAdd(key, v) ==
    /\ fault = "none"
    /\ trie_find(trie, key) # <<>> \/ trie.length < MaxTrieLen
    /\ IF key = <<>>
       THEN /\ fault' = "key must not be empty"
            /\ trie' = trie
       ELSE /\ fault' = fault
            /\ trie' = trie_add(trie, key, v)
    /\ last' = [op |-> "add", arg |-> key, ret |-> <<v>>]
    /\ UNCHANGED <<registry, heap>>

TrieFind(key) ==
    /\ fault = "none"
    /\ last' = [op |-> "find", arg |-> key, ret |-> trie_find(trie, key)]
    /\ UNCHANGED <<registry, fault, heap, trie>>

TrieRemove(key) ==
    /\ fault = "none"
    /\ trie' = trie_remove(trie, key).t
    /\ last' = [op |-> "remove", arg |-> key, ret |-> trie_remove(trie, key).ret]
    /\ UNCHANGED <<registry, fault, heap>>

NextTrie ==
    \/ \E key \in TrieKeys, v \in 1..MaxValue : TrieAdd(key, v)
    \/ \E key \in TrieKeys : TrieFind(key)
    \/ \E key \in TrieKeys : TrieRemove(key)

SpecTrie == Init /\ [][NextTrie]_vars

\* ---------------------------------------------------------------- observers
RECURSIVE Reach(_, _)
\* The nodes reachable from the handles in S through left/right links.
Reach(ns, S) ==
    LET T == (S \cup {ns[n].left : n \in S} \cup {ns[n].right : n \in S}) \ {None}
    IN IF T = S THEN S ELSE Reach(ns, T)

TreeNodes == IF root = None THEN {} ELSE Reach(nodes, {root})

RECURSIVE InOrder(_, _, _)
\* Keys in the order left subtree, node, right subtree.
InOrder(ns, n, fuel) ==
    IF n = None \/ fuel = 0 THEN <<>>
    ELSE InOrder(ns, ns[n].left, fuel - 1) \o <<ns[n].v>>
             \o InOrder(ns, ns[n].right, fuel - 1)

InOrderKeys == InOrder(nodes, root, Len(nodes) + 1)

NonDecreasing(seq) == \A i \in 1..(Len(seq) - 1) : seq[i] <= seq[i + 1]

RECURSIVE BlackCounts(_, _, _)
\* The numbers of Black nodes on the paths from n down to each empty child
\* position.
BlackCounts(ns, n, fuel) ==
    IF n = None \/ fuel = 0 THEN {0}
    ELSE LET below == BlackCounts(ns, ns[n].left, fuel - 1)
                          \cup BlackCounts(ns, ns[n].right, fuel - 1)
             own == IF ns[n].color = "Black" THEN 1 ELSE 0
         IN {c + own : c \in below}

Inserted == {calls[i] : i \in 1..Len(calls)}

Completed == fault = "none" /\ calls # <<>>

\* ---------------------------------------------------------------- claims

\* C1: after each completed insert no Red node has a Red child.
C1_NoRedRed ==
    Completed =>
        \A n \in TreeNodes :
            nodes[n].color = "Red" =>
                /\ nodes[n].left # None => nodes[nodes[n].left].color # "Red"
                /\ nodes[n].right # None => nodes[nodes[n].right].color # "Red"

\* C2: after each completed insert every path from the root to an empty
\* child position passes through the same number of Black nodes.
C2_EqualBlackCount ==
    Completed => Cardinality(BlackCounts(nodes, root, Len(nodes) + 1)) = 1

\* C3: after each completed insert (duplicates allowed) the in-order
\* traversal from the registry root is non-decreasing in key.
C3_InOrderNonDecreasing ==
    Completed => NonDecreasing(InOrderKeys)

\* C4: after each completed insert the registry is non-empty and the node
\* it holds as root is Black.
C4_RootBlack ==
    Completed => root # None /\ nodes[root].color = "Black"

C4_Witness ==
    /\ Completed
    /\ last.op = "insert"
    /\ rotations > 0
    /\ root # 1
    /\ nodes[root].color = "Black"

\* C5: after any sequence of inserts the number of distinct nodes reachable
\* from the root through left/right links equals the length counter.
C5_ReachableEqualsLength ==
    Completed => Cardinality(TreeNodes) = length

\* C6: length equals the number of insert calls made so far; every insert,
\* of a key already present too, increases it by exactly one, and find,
\* walk and rotate leave it unchanged.
C6_LengthCountsInserts ==
    /\ [](length = Len(calls))
    /\ [][/\ last'.op = "insert" => length' = length + 1
          /\ last'.op \in {"find", "walk", "rotate"} => length' = length]_vars

C6_Witness ==
    /\ last.op = "rotate"
    /\ length = Len(calls)
    /\ \E i, j \in 1..Len(calls) : i < j /\ calls[i] = calls[j]

\* C7: insert(v) immediately followed by find(v) returns Some(v).
C7_InsertThenFind ==
    [][(/\ last.op = "insert"
        /\ fault = "none"
        /\ last'.op = "find"
        /\ last'.arg = last.arg) => last'.ret = <<last.arg>>]_vars

\* C8: insert always succeeds: no insert hits a fatal condition and every
\* value is stored as its own node.
C8_InsertAlwaysSucceeds ==
    fault = "none" /\ Len(nodes) = Len(calls)

\* C9: find(v) returns None when no node with key v has been inserted (the
\* empty registry included) and never returns a value that was not inserted.
C9_FindMiss ==
    last.op = "find" =>
        /\ fault = "none"
        /\ last.arg \notin Inserted => last.ret = <<>>
        /\ last.ret # <<>> => last.ret[1] \in Inserted

C9_Witness ==
    /\ last.op = "find"
    /\ Cardinality(Inserted) >= 3
    /\ last.arg \notin Inserted
    /\ \E k \in Inserted : k < last.arg
    /\ \E k \in Inserted : k > last.arg
    /\ last.ret = <<>>

ShapeAfter123(childColor) ==
    /\ fault = "none"
    /\ rotations = 1
    /\ root # None
    /\ nodes[root].v = 2
    /\ nodes[root].color = "Black"
    /\ nodes[root].left # None
    /\ nodes[root].right # None
    /\ LET l == nodes[nodes[root].left]
           r == nodes[nodes[root].right]
       IN /\ l.v = 1 /\ l.color = childColor /\ l.left = None /\ l.right = None
          /\ r.v = 3 /\ r.color = childColor /\ r.left = None /\ r.right = None
    /\ InOrderKeys = <<1, 2, 3>>

\* C10 as stated: inserting 1, 2, 3 into an empty registry triggers one
\* rotation and yields 2 as Black root with children 1 and 3, both Black,
\* in-order <<1, 2, 3>>.
C10_Original ==
    (calls = <<1, 2, 3>> /\ last.op = "insert") => ShapeAfter123("Black")

\* C10 amended: inserting 1, 2, 3 into an empty registry triggers one
\* rotation and yields 2 as Black root with children 1 and 3, both Red,
\* in-order <<1, 2, 3>>.
C10_Amended ==
    (calls = <<1, 2, 3>> /\ last.op = "insert") => ShapeAfter123("Red")

C10_Witness ==
    /\ calls = <<1, 2, 3>>
    /\ last.op = "insert"
    /\ rotations = 1
    /\ nodes[root].v = 2

\* ---------------------------------------------------------------- observers (2)
\* The node without parent found from the registry root (None if the parent
\* links never end), and the in-order keys read from it.
Topmost(ns, r) == IF r = None THEN None ELSE root_walk(ns, r, 0)

TopInOrder(ns, r) == InOrder(ns, Topmost(ns, r), Len(ns) + 1)

Links(ns) == [i \in 1..Len(ns) |-> <<ns[i].parent, ns[i].left, ns[i].right>>]

Occurrences(seq, k) == Cardinality({i \in 1..Len(seq) : seq[i] = k})

RECURSIVE Height(_, _, _)
\* Number of nodes on the longest path from n down to a leaf.
Height(ns, n, fuel) ==
    IF n = None \/ fuel = 0 THEN 0
    ELSE LET hl == Height(ns, ns[n].left, fuel - 1)
             hr == Height(ns, ns[n].right, fuel - 1)
         IN 1 + (IF hl >= hr THEN hl ELSE hr)

RECURSIVE Pow2(_)
Pow2(k) == IF k = 0 THEN 1 ELSE 2 * Pow2(k - 1)

RECURSIVE Ancestors(_, _, _)
\* Number of parent links from n up to a node without parent.
Ancestors(ns, n, fuel) ==
    IF ns[n].parent = None \/ fuel = 0 THEN 0
    ELSE 1 + Ancestors(ns, ns[n].parent, fuel - 1)

RECURSIVE NodeRightLeft(_, _, _)
\* Node ids in the order node, right subtree, left subtree.
NodeRightLeft(ns, n, fuel) ==
    IF n = None \/ fuel = 0 THEN <<>>
    ELSE <<n>> \o NodeRightLeft(ns, ns[n].right, fuel - 1)
             \o NodeRightLeft(ns, ns[n].left, fuel - 1)

\* ---------------------------------------------------------------- claims (2)

\* C11: inserting 2, 1, 4, 3, 7, 6, 5 into an empty registry ends with
\* length 7, in-order traversal 1..7 and the same number of Black nodes on
\* every path from the root to an empty child position.
C11_ComplexScenario ==
    (calls = <<2, 1, 4, 3, 7, 6, 5>> /\ last.op = "insert") =>
        /\ fault = "none"
        /\ length = 7
        /\ InOrderKeys = <<1, 2, 3, 4, 5, 6, 7>>
        /\ Cardinality(BlackCounts(nodes, root, Len(nodes) + 1)) = 1

\* C12: an insert that aborts on a panic leaves the length counter as it
\* was; an insert that completes has linked its node and added one.
C12_NoIncrementOnAbort ==
    [][last'.op = "insert" =>
          IF fault' # "none" THEN length' = length
          ELSE /\ length' = length + 1
               /\ Len(nodes') = Len(nodes) + 1]_vars

\* C13: a rotation of a node that has the required child, in a tree built
\* by inserts, leaves the in-order key sequence read from the topmost node
\* unchanged.
C13_RotatePreservesInOrder ==
    [][(rotated = 0 /\ last'.op = "rotate" /\ fault' = "none") =>
          TopInOrder(nodes', root') = TopInOrder(nodes, root)]_vars

RotatedRight(ns, ns2, n) ==
    LET l == ns[n].left
        p == ns[n].parent
        gr == ns[l].right
    IN /\ ns2[l].parent = p
       /\ p # None =>
              /\ ns[p].left = n => (ns2[p].left = l /\ ns2[p].right = ns[p].right)
              /\ ns[p].left # n => (ns2[p].right = l /\ ns2[p].left = ns[p].left)
       /\ ns2[l].right = n
       /\ ns2[n].parent = l
       /\ ns2[n].left = gr
       /\ gr # None => ns2[gr].parent = n

RotatedLeft(ns, ns2, n) ==
    LET r == ns[n].right
        p == ns[n].parent
        gl == ns[r].left
    IN /\ ns2[r].parent = p
       /\ p # None =>
              /\ ns[p].left = n => (ns2[p].left = r /\ ns2[p].right = ns[p].right)
              /\ ns[p].left # n => (ns2[p].right = r /\ ns2[p].left = ns[p].left)
       /\ ns2[r].left = n
       /\ ns2[n].parent = r
       /\ ns2[n].right = gl
       /\ gl # None => ns2[gl].parent = n

\* C14: after rotate(n, Right) with l = n.left, l has n's former parent and
\* sits in the child slot n occupied, n is l's right child with parent l, and
\* n's left child is l's former right child with parent n; rotate(n, Left)
\* is the mirror image.
C14_RotateRelinks ==
    [][(rotated = 0 /\ last'.op = "rotate" /\ fault' = "none") =>
          IF last'.ret = <<"Right">>
          THEN RotatedRight(nodes, nodes', last'.arg)
          ELSE RotatedLeft(nodes, nodes', last'.arg)]_vars

\* C15: rotating n Right and then rotating Left the node that took n's
\* place restores every parent, left and right link, and so the in-order
\* sequence.
C15_RotateRoundTrip ==
    [][(/\ rotated = 1
        /\ fault = "none"
        /\ last.op = "rotate"
        /\ last.ret = <<"Right">>
        /\ last'.op = "rotate"
        /\ last'.ret = <<"Left">>
        /\ last'.arg = snapshot[last.arg].left) =>
          /\ fault' = "none"
          /\ Links(nodes') = Links(snapshot)
          /\ TopInOrder(nodes', root') = TopInOrder(snapshot, root)]_vars

RootRotated ==
    /\ fault = "none"
    /\ rotated = 1
    /\ last.op = "rotate"
    /\ last.arg = root

\* C16 as stated: after a completed insert, or a rotation applied to the
\* current root, the node the registry references as root has no parent.
C16_Original ==
    (Completed /\ (rotated = 0 \/ RootRotated)) => nodes[root].parent = None

\* C16 amended: after a completed insert the node the registry references
\* as root has no parent; a rotation applied directly to the current root
\* leaves the reference on the rotated node, whose parent, its former child
\* on the side opposite to the rotation, is then the node without parent.
C16_Amended ==
    /\ (Completed /\ rotated = 0) => nodes[root].parent = None
    /\ RootRotated =>
           /\ nodes[root].parent # None
           /\ nodes[root].parent =
                  (IF last.ret = <<"Right">> THEN snapshot[root].left
                   ELSE snapshot[root].right)
           /\ nodes[nodes[root].parent].parent = None

C16_Witness ==
    /\ RootRotated
    /\ Len(calls) >= 3
    /\ root # 1
    /\ nodes[root].parent # None

\* C17: walk invokes the callback exactly once per inserted node, in the
\* order node, right subtree, left subtree, with the node's number of
\* ancestors as depth; on an empty registry it makes no invocation.
C17_WalkVisitsEachOnce ==
    (last.op = "walk" /\ rotated = 0) =>
        /\ fault = "none"
        /\ Len(last.ret) = Len(calls)
        /\ \A k \in Inserted : Occurrences([i \in 1..Len(last.ret) |-> last.ret[i][1]], k)
                                   = Occurrences(calls, k)
        /\ LET order == NodeRightLeft(nodes, root, Len(nodes) + 1)
           IN /\ Len(order) = Len(last.ret)
              /\ \A i \in 1..Len(order) :
                     last.ret[i] = <<nodes[order[i]].v,
                                     Ancestors(nodes, order[i], Len(nodes))>>

\* C18: after n inserts of distinct keys the height h of the tree satisfies
\* 2^ceil(h/2) <= n + 1.
C18_HeightBound ==
    (Completed /\ Cardinality(Inserted) = Len(calls)) =>
        Pow2((Height(nodes, root, Len(nodes) + 1) + 1) \div 2) <= Len(calls) + 1

RECURSIVE Max(_)
Max(h) == IF Len(h) = 1 THEN h[1]
          ELSE IF h[1] >= Max(Tail(h)) THEN h[1] ELSE Max(Tail(h))

\* C19: pop on a non-empty queue returns a notification whose
\* message_count is the maximum among those in the queue.
C19_PopReturnsMax ==
    [][(last'.op = "pop" /\ heap # <<>>) => last'.ret = <<Max(heap)>>]_vars

Stored(t) == {k \in TrieKeys : trie_find(t, k) # <<>>}

\* C20: add(key, v) with a non-empty key makes find(key) return v; len is
\* unchanged when key was stored and one more when it was not; the value
\* found for every other stored key is unchanged.
C20_AddThenFind ==
    [][(last'.op = "add" /\ fault' = "none") =>
          /\ trie_find(trie', last'.arg) = last'.ret
          /\ trie'.length = (IF last'.arg \in Stored(trie) THEN trie.length
                             ELSE trie.length + 1)
          /\ \A k \in Stored(trie) \ {last'.arg} :
                 trie_find(trie', k) = trie_find(trie, k)]_vars

C20_Witness ==
    /\ last.op = "add"
    /\ fault = "none"
    /\ trie.length = MaxTrieLen
    /\ trie_find(trie, last.arg) = last.ret
    /\ \E k \in Stored(trie) \ {last.arg} :
           /\ trie_find(trie, k) # last.ret
           /\ IsPrefix(k, last.arg) \/ IsPrefix(last.arg, k)

\* C21: remove(key) of a stored key returns its current value, takes one
\* from len, makes find(key) return None and leaves every other stored key
\* findable with its value; len always equals the number of keys that find
\* returns a value for.
C21_RemoveStored ==
    /\ [](trie.length = Cardinality(Stored(trie)))
    /\ [][(last'.op = "remove" /\ last'.arg \in Stored(trie)) =>
              /\ last'.ret = trie_find(trie, last'.arg)
              /\ trie'.length = trie.length - 1
              /\ trie_find(trie', last'.arg) = <<>>
              /\ \A k \in Stored(trie) \ {last'.arg} :
                     trie_find(trie', k) = trie_find(trie, k)]_vars

C21_Witness ==
    /\ last.op = "remove"
    /\ last.ret # <<>>
    /\ trie_find(trie, last.arg) = <<>>
    /\ \E k \in Stored(trie) : IsPrefix(k, last.arg) \/ IsPrefix(last.arg, k)
    /\ \E k \in Stored(trie) :
           /\ ~IsPrefix(k, last.arg)
           /\ ~IsPrefix(last.arg, k)
           /\ k[1] = last.arg[1]

\* The fixup is at current with a Red parent and a Red uncle u.uncle.
RedUncleCase(m, current, u) ==
    /\ ~Failed(m)
    /\ ~is_root(m.ns, current)
    /\ m.ns[m.ns[current].parent].color = "Red"
    /\ u.some
    /\ u.uncle # None
    /\ m.ns[u.uncle].color = "Red"

\* r is the outcome [m, parent, current] of one pass of the loop body
\* started from m at current.
RedUncleResult(m, current, u, r) ==
    /\ ~Failed(r.m)
    /\ r.m.ns[m.ns[current].parent].color = "Black"
    /\ r.m.ns[u.uncle].color = "Black"
    /\ r.m.ns[m.ns[m.ns[current].parent].parent].color = "Red"
    /\ r.current = m.ns[m.ns[current].parent].parent

RedUncleStep(m, current, u) ==
    RedUncleCase(m, current, u) =>
        RedUncleResult(m, current, u, loop_body(m, current, u))

RedUncleStepAt(r) == RedUncleStep(r.m, r.new, uncle(r.m.ns, r.new))

\* C22: when the current node's parent and uncle are both Red, one fixup
\* step leaves the parent Black, the uncle Black and the grandparent Red,
\* and the next current node is the grandparent.  Stated for the first
\* fixup step of every insert, which starts at the node just linked.
C22_RedUncleStep ==
    [][last'.op = "insert" =>
          RedUncleStepAt(insert_internal(Machine, last'.arg))]_vars

\* C23: in an insert, the root-blackening is the only colour write that may
\* leave a node's colour as it was; every other colour write of the fixup
\* changes the node to the opposite colour.  switch_color refuses any other
\* write; the field assignments of the black-uncle arm that leave the colour
\* as it was are counted in idle.
C23_ColourWritesFlip ==
    [][last'.op = "insert" => insert(Machine, last'.arg).idle = 0]_vars

\* The while loop of balance has left r = [m, current] in a state where its
\* condition is false or the uncle lookup found no grandparent, and the walk
\* along parent links from current ends.
LoopEnded(r) ==
    Failed(r.m) \/
        /\ \/ is_root(r.m.ns, r.current)
           \/ r.m.ns[r.m.ns[r.current].parent].color # "Red"
           \/ ~uncle(r.m.ns, r.current).some
        /\ root_walk(r.m.ns, r.current, 0) # None
        /\ is_root(r.m.ns, root_walk(r.m.ns, r.current, 0))

FixupEnds(r) == LoopEnded(balance_loop(r.m, r.new, 0))

\* C24: every insert terminates, duplicates allowed: neither the descent,
\* nor the fixup loop, nor the walk along parent links runs without end;
\* the loop ends with no Red parent, no grandparent or current at the root,
\* and the walk that follows reaches a node without parent.
C24_InsertTerminates ==
    /\ [](fault \notin {"endless_loop", "overflow"})
    /\ [][last'.op = "insert" =>
              FixupEnds(insert_internal(Machine, last'.arg))]_vars

C24_Witness ==
    /\ last.op = "insert"
    /\ fault = "none"
    /\ Len(calls) = MaxInserts
    /\ Cardinality(Inserted) < Len(calls)
    /\ rotations >= 2
    /\ nodes[root].parent = None

RECURSIVE Routed(_, _, _, _, _)
\* Every node on the parent chain above c holds its chain child in the slot
\* the rule names for key: with smallerLeft, a key below the node's key
\* sits left and any other right; without, a key above the node's key
\* sits left and any other right.
Routed(ns, c, key, smallerLeft, fuel) ==
    IF ns[c].parent = None \/ fuel = 0 THEN TRUE
    ELSE /\ IF (IF smallerLeft THEN key < ns[ns[c].parent].v
                ELSE key > ns[ns[c].parent].v)
            THEN ns[ns[c].parent].left = c
            ELSE ns[ns[c].parent].right = c
         /\ Routed(ns, ns[c].parent, key, smallerLeft, fuel - 1)

\* r is what insert_internal returns: the nodes visited by the descent are
\* the parent chain of the new node, up to the root.
RoutedFromRoot(r, key, smallerLeft) ==
    Failed(r.m) \/
        /\ r.m.ns[r.new].v = key
        /\ root_walk(r.m.ns, r.new, 0) = r.m.root
        /\ Routed(r.m.ns, r.new, key, smallerLeft, Len(r.m.ns))

\* C25 as stated: at each node visited while inserting, a new key less than
\* or equal to the node's key goes to the right subtree and a strictly
\* greater one to the left subtree.
C25_Original ==
    [][last'.op = "insert" =>
          RoutedFromRoot(insert_internal(Machine, last'.arg), last'.arg, FALSE)]_vars

\* C25 amended: at each node visited while inserting, a new key greater than
\* or equal to the node's key goes to the right subtree and a strictly
\* smaller one to the left subtree.
C25_Amended ==
    [][last'.op = "insert" =>
          RoutedFromRoot(insert_internal(Machine, last'.arg), last'.arg, TRUE)]_vars

C25_Witness ==
    /\ last.op = "insert"
    /\ fault = "none"
    /\ nodes[Len(nodes)].v = last.arg
    /\ nodes[Len(nodes)].parent # None
    /\ \E i, j, k \in 1..(Len(calls) - 1) :
           /\ calls[i] < last.arg
           /\ calls[j] > last.arg
           /\ calls[k] = last.arg

\* The child a rotation of n moves up: the left one for Right, the right
\* one for Left.
RequiredChild(ns, n, direction) ==
    IF direction = <<"Right">> THEN ns[n].left ELSE ns[n].right

\* C26: rotate(n, Right) on a node without left child, or rotate(n, Left)
\* on a node without right child, fails on the assertion, and no parent or
\* child link (nor anything else) of any node has been modified by then.
C26_RotateWithoutChild ==
    [][(last'.op = "rotate" /\ RequiredChild(nodes, last'.arg, last'.ret) = None) =>
          /\ fault' = "rotate_without_child"
          /\ nodes' = nodes
          /\ root' = root]_vars

C26_Witness ==
    /\ last.op = "rotate"
    /\ fault = "rotate_without_child"
    /\ nodes[last.arg].parent # None
    /\ RequiredChild(nodes, last.arg, last.ret) = None
    /\ nodes[last.arg].left # None \/ nodes[last.arg].right # None

\* C27: remove(key) for a key that is not stored (never added, removed
\* before, empty, or only an internal prefix of stored keys) returns None
\* and leaves len and the result of find for every key unchanged.
C27_RemoveMissing ==
    [][(last'.op = "remove" /\ last'.arg \notin Stored(trie)) =>
          /\ last'.ret = <<>>
          /\ trie'.length = trie.length
          /\ \A k \in TrieKeys : trie_find(trie', k) = trie_find(trie, k)]_vars

C27_Witness ==
    /\ last.op = "remove"
    /\ last.ret = <<>>
    /\ last.arg \in DOMAIN trie.next
    /\ trie.next[last.arg].kind = "Internal"
    /\ trie.length >= 2

\* C28: after any sequence of add and remove the trie holds no unused
\* node: every node without children is an Entry node; once no key is stored
\* the root map is empty.
C28_NoUnusedNode ==
    /\ \A p \in DOMAIN trie.next : ~is_unused(trie.next, p)
    /\ Stored(trie) = {} => DOMAIN trie.next = {}

C28_Witness ==
    /\ last.op = "remove"
    /\ last.ret # <<>>
    /\ Len(last.arg) >= 2
    /\ DOMAIN trie.next = {}

\* The child slots <<p, side>> that hold node n.
SlotsOf(ns, n) ==
    {sl \in (1..Len(ns)) \X {"left", "right"} :
        IF sl[2] = "left" THEN ns[sl[1]].left = n ELSE ns[sl[1]].right = n}

\* C29: after every completed insert, duplicates allowed, each child of a
\* node has that node as parent, each node other than the root is held in
\* exactly one child slot, a slot of its own parent, and the root has no
\* parent.
C29_LinksConsistent ==
    Completed =>
        /\ \A n \in 1..Len(nodes) :
               /\ nodes[n].left # None => nodes[nodes[n].left].parent = n
               /\ nodes[n].right # None => nodes[nodes[n].right].parent = n
        /\ \A n \in (1..Len(nodes)) \ {root} :
               /\ Cardinality(SlotsOf(nodes, n)) = 1
               /\ \A sl \in SlotsOf(nodes, n) : sl[1] = nodes[n].parent
        /\ nodes[root].parent = None
        /\ SlotsOf(nodes, root) = {}

\* C30: after any sequence of add and pop, every element at an index i > 0
\* of the vector is less than or equal to the element at index (i - 1) / 2,
\* so the element at index 0 is a maximum.
C30_HeapOrder ==
    \A i \in 1..(Len(heap) - 1) : heap[i + 1] <= heap[parent(i)[1] + 1]

====
